---------------------------- MODULE Spec2Model ----------------------------
(* A model of util/agent_builder.py: the AgentBuilderUtil request builders. *)
(* One call of one method is made on one AgentBuilderUtil object: Init      *)
(* draws the object's fields and the call's arguments, the method's action  *)
(* runs its handler, and the remote long-running operation a call starts    *)
(* finishes on its own.                                                     *)
(*                                                                          *)
(* Representation.  A path string is the sequence of its pieces, each piece *)
(* a piece of text ("/" is a piece of its own), and formatting is           *)
(* concatenation.  A Python value that may be None is a sequence of length  *)
(* at most one: None is << >>, the value v is << v >>.                      *)
EXTENDS Integers, Sequences, FiniteSets

VARIABLES project_id, location, collection_id, call, pc, result, lro, rpc

vars == << project_id, location, collection_id, call, pc, result, lro, rpc >>

(***************************************************************************)
(* Bounds of the model.                                                    *)
(***************************************************************************)
\* longest project_id and location, in pieces
MaxCompLen == 2
\* most entries of file_type_overrides
MaxOverrides == 1
\* largest num_previous_chunks / num_next_chunks
MaxNeighbors == 1

(***************************************************************************)
(* Python values.                                                          *)
(***************************************************************************)
None == << >>

Some(v) == << v >>

\* bool(s) of an optional string: None and "" are falsy
TruthyStr(o) == o # None /\ o[1] # ""

\* bool(b) of an optional bool
TruthyBool(o) == o # None /\ o[1] = TRUE

\* a proto3 scalar field given None keeps its default
ProtoInt(o) == IF o = None THEN 0 ELSE o[1]

ProtoBool(o) == IF o = None THEN FALSE ELSE o[1]

ProtoStr(o) == IF o = None THEN "" ELSE o[1]

(***************************************************************************)
(* Strings as sequences of pieces.                                         *)
(***************************************************************************)
Pieces == {"a", "/", "locations"}

RECURSIVE StrsOfLen(_)
StrsOfLen(n) ==
    IF n = 0 THEN {<< >>}
    ELSE {Append(s, p) : s \in StrsOfLen(n - 1), p \in Pieces}

Strs(n) == UNION {StrsOfLen(k) : k \in 0..n}

HasSlash(s) == \E i \in 1..Len(s) : s[i] = "/"

\* the project ids and locations, and the data store ids, of the model
Components == Strs(MaxCompLen)

Ids == {<< >>} \cup {<<p>> : p \in Pieces}

Collections == {<<"default_collection">>, <<"a">>}

(***************************************************************************)
(* Resource names.                                                         *)
(***************************************************************************)
\* f"projects/{p}/locations/{l}/collections/{c}"
CollectionPath(p, l, c) ==
    <<"projects", "/">> \o p \o <<"/", "locations", "/">> \o l
        \o <<"/", "collections", "/">> \o c

\* a faulty variant: the data store id is dropped from the name
DataStorePathNoId(p, l, c, id) ==
    CollectionPath(p, l, c) \o <<"/", "dataStores", "/">>

\* f"projects/{p}/locations/{l}/collections/{c}/dataStores/{id}"
DataStorePath(p, l, c, id) ==
    CollectionPath(p, l, c) \o <<"/", "dataStores", "/">> \o id

\* f"{data store path}/documentProcessingConfig"
ProcessingConfigName(p, l, c, id) ==
    DataStorePath(p, l, c, id) \o <<"/", "documentProcessingConfig">>

\* DocumentServiceClient.branch_path(project, location, data_store, branch)
BranchPath(p, l, id, branch) ==
    <<"projects", "/">> \o p \o <<"/", "locations", "/">> \o l
        \o <<"/", "dataStores", "/">> \o id \o <<"/", "branches", "/">> \o branch

(***************************************************************************)
(* generate_document_processing_config                                     *)
(***************************************************************************)
MinChunkSize == 100

MaxChunkSize == 500

ParsingConfigTypes ==
    {"digital_parsing_config", "ocr_parsing_config", "layout_parsing_config"}

SupportedFileTypes == {"pdf", "html", "docx", "pptx", "xlsm", "xlsx"}

\* ParsingConfig(): the oneof type_dedicated_config, unset
EmptyParsingConfig == [kind |-> "unset", use_native_text |-> FALSE]

DigitalParsingConfig == [kind |-> "digital_parsing_config", use_native_text |-> FALSE]

OcrParsingConfig(unt) == [kind |-> "ocr_parsing_config", use_native_text |-> unt]

LayoutParsingConfig == [kind |-> "layout_parsing_config", use_native_text |-> FALSE]

Raised(msg) == [error |-> msg]

IsError(r) == "error" \in DOMAIN r

\* the base parsing config, or the error of an unrecognized type
BaseParsingConfig(type, unt) ==
    IF type = "digital_parsing_config" THEN DigitalParsingConfig
    ELSE IF type = "ocr_parsing_config" THEN OcrParsingConfig(unt)
    ELSE IF type = "layout_parsing_config" THEN LayoutParsingConfig
    ELSE Raised("Invalid parsing_config_type.")

\* a faulty variant: the ocr override is accepted for every supported file type
OverrideConfigOcrAnywhere(file_type, overrides) ==
    IF file_type \notin SupportedFileTypes
    THEN Raised("Unsupported file type")
    ELSE IF overrides.parsing_config_type = None THEN EmptyParsingConfig
    ELSE LET override_type == overrides.parsing_config_type[1] IN
         IF override_type = "digital_parsing_config" THEN DigitalParsingConfig
         ELSE IF override_type = "ocr_parsing_config"
         THEN OcrParsingConfig(ProtoBool(overrides.use_native_text))
         ELSE IF override_type = "layout_parsing_config" THEN LayoutParsingConfig
         ELSE Raised("Invalid parsing_config_type in overrides.")

\* a faulty variant: every override is built from the digital branch
OverrideConfigAlwaysDigital(file_type, overrides) ==
    IF file_type \notin SupportedFileTypes
    THEN Raised("Unsupported file type")
    ELSE IF overrides.parsing_config_type = None THEN EmptyParsingConfig
    ELSE LET override_type == overrides.parsing_config_type[1] IN
         IF override_type \in ParsingConfigTypes THEN DigitalParsingConfig
         ELSE Raised("Invalid parsing_config_type in overrides.")

\* one pass of the loop over file_type_overrides.items(): the override's
\* parsing config, or the error the pass raises
OverrideConfig(file_type, overrides) ==
    IF file_type \notin SupportedFileTypes
    THEN Raised("Unsupported file type")
    ELSE IF overrides.parsing_config_type = None THEN EmptyParsingConfig
    ELSE LET override_type == overrides.parsing_config_type[1] IN
         IF override_type = "digital_parsing_config"
         THEN IF file_type \notin SupportedFileTypes
              THEN Raised("digital_parsing_config is not supported")
              ELSE DigitalParsingConfig
         ELSE IF override_type = "ocr_parsing_config"
         THEN IF file_type # "pdf"
              THEN Raised("ocr_parsing_config is only supported for PDF files.")
              ELSE OcrParsingConfig(ProtoBool(overrides.use_native_text))
         ELSE IF override_type = "layout_parsing_config" THEN LayoutParsingConfig
         ELSE Raised("Invalid parsing_config_type in overrides.")

\* the loop over file_type_overrides.items(), in the dict's order, from
\* entry i on: the filled parsing_config_overrides, or the first error
RECURSIVE ApplyOverrides(_, _, _)
ApplyOverrides(entries, i, acc) ==
    IF i > Len(entries) THEN [map |-> acc]
    ELSE LET file_type == entries[i].file_type
             cfg == OverrideConfig(file_type, entries[i].overrides)
         IN  IF IsError(cfg) THEN cfg
             ELSE ApplyOverrides(entries, i + 1,
                      [f \in (DOMAIN acc) \cup {file_type} |->
                          IF f = file_type THEN cfg ELSE acc[f]])

NoOverrides == [f \in {} |-> EmptyParsingConfig]

\* a faulty variant: the upper end of the range is exclusive
ChunkSizeErrorExclusive(chunk_size) ==
    chunk_size < MinChunkSize \/ chunk_size >= MaxChunkSize

\* the test before "chunk_size must be between 100 and 500 inclusive."
ChunkSizeError(chunk_size) ==
    chunk_size < MinChunkSize \/ chunk_size > MaxChunkSize

\* the test before "Chunking is only supported with layout_parsing_config."
ChunkingError(enable_chunking, type) ==
    enable_chunking /\ ~(type = "layout_parsing_config")

\* the whole builder: the configuration it returns, or the error it raises
DocumentProcessingConfig(p, l, c, a) ==
    LET parsing_config == BaseParsingConfig(a.parsing_config_type, a.use_native_text)
    IN
    IF IsError(parsing_config) THEN parsing_config
    ELSE
    LET chunking_config ==
            IF a.enable_chunking
            THEN Some([chunk_size |-> a.chunk_size,
                       include_ancestor_headings |-> a.include_ancestor_headings])
            ELSE None
        overrides ==
            IF a.file_type_overrides # << >>
            THEN ApplyOverrides(a.file_type_overrides, 1, NoOverrides)
            ELSE [map |-> NoOverrides]
    IN
    IF IsError(overrides) THEN overrides
    ELSE IF ChunkingError(a.enable_chunking, a.parsing_config_type)
    THEN Raised("Chunking is only supported with layout_parsing_config.")
    ELSE IF ChunkSizeError(a.chunk_size)
    THEN Raised("chunk_size must be between 100 and 500 inclusive.")
    ELSE [name |-> ProcessingConfigName(p, l, c, a.data_store_id),
          default_parsing_config |-> parsing_config,
          chunking_config |-> chunking_config,
          parsing_config_overrides |-> overrides.map]

(***************************************************************************)
(* create_datastore, import_documents, create_engine: the requests         *)
(***************************************************************************)
CreateDataStoreRequest(p, l, c, a) ==
    [parent |-> CollectionPath(p, l, c),
     data_store |->
         [name |-> DataStorePath(p, l, c, a.data_store_id),
          display_name |-> a.data_store_id,
          industry_vertical |-> "GENERIC",
          solution_types |-> <<"SOLUTION_TYPE_SEARCH">>,
          content_config |-> "CONTENT_REQUIRED",
          document_processing_config |-> a.document_processing_config,
          starting_schema |-> a.starting_schema],
     data_store_id |-> a.data_store_id]

GcsSource(uri) == [input_uris |-> <<uri>>, data_schema |-> "document"]

BigQuerySource(p, dataset, table) ==
    [project_id |-> p, dataset_id |-> ProtoStr(dataset),
     table_id |-> ProtoStr(table), data_schema |-> "custom"]

\* a faulty variant: the warehouse source is filled in whenever a dataset is given
ImportDocumentsRequestBoth(p, l, a) ==
    [parent |-> BranchPath(p, l, a.data_store_id, <<"default_branch">>),
     gcs_source |->
         IF TruthyStr(a.gcs_uri) THEN Some(GcsSource(a.gcs_uri[1])) ELSE None,
     bigquery_source |->
         IF TruthyStr(a.gcs_uri) /\ ~TruthyStr(a.bigquery_dataset) THEN None
         ELSE Some(BigQuerySource(p, a.bigquery_dataset, a.bigquery_table)),
     reconciliation_mode |-> "INCREMENTAL"]

\* the request import_documents builds: the branch on gcs_uri
ImportDocumentsRequest(p, l, a) ==
    IF TruthyStr(a.gcs_uri)
    THEN [parent |-> BranchPath(p, l, a.data_store_id, <<"default_branch">>),
          gcs_source |-> Some(GcsSource(a.gcs_uri[1])),
          bigquery_source |-> None,
          reconciliation_mode |-> "INCREMENTAL"]
    ELSE [parent |-> BranchPath(p, l, a.data_store_id, <<"default_branch">>),
          gcs_source |-> None,
          bigquery_source |->
              Some(BigQuerySource(p, a.bigquery_dataset, a.bigquery_table)),
          reconciliation_mode |-> "INCREMENTAL"]

CreateEngineRequest(p, l, c, a) ==
    [parent |-> CollectionPath(p, l, c),
     engine |->
         [search_tier |-> "SEARCH_TIER_ENTERPRISE",
          search_add_ons |-> <<"SEARCH_ADD_ON_LLM">>,
          display_name |-> a.display_name,
          solution_type |-> "SOLUTION_TYPE_SEARCH",
          data_store_ids |-> a.data_store_ids],
     engine_id |-> a.engine_id]

(***************************************************************************)
(* check_index_status                                                      *)
(***************************************************************************)
\* what the remote get_document call and MessageToDict can do
GetDocumentOutcomes ==
    {[kind |-> "rpc_error", message |-> None],
     [kind |-> "bad_response", message |-> None],
     [kind |-> "document", message |-> None],
     [kind |-> "document", message |-> Some("2024-05-01T00:00:00Z")]}

\* a faulty variant: the except clause raises the error it builds
IndexStatusReraise(outcome) ==
    IF outcome.kind = "document"
    THEN [value |-> outcome.message]
    ELSE Raised("Error checking index status")

\* the try block's return, or the except clause falling off the end
IndexStatus(outcome) ==
    IF outcome.kind = "document"
    THEN [value |-> outcome.message]
    ELSE [value |-> None]

(***************************************************************************)
(* generate_search_request                                                 *)
(***************************************************************************)
\* an argument the caller leaves out
NotPassed == <<"not", "passed">>

\* the parameter's value: the default "SUGGESTION_ONLY" when left out
SpellCorrectionModeParam(arg) ==
    IF arg = NotPassed THEN Some("SUGGESTION_ONLY") ELSE arg

\* a faulty variant: the spell-correction spec is attached whatever the mode
SpellCorrectionSpecAlways(mode) == Some([mode |-> ProtoStr(mode)])

\* if spell_correction_mode: request.spell_correction_spec = ...
SpellCorrectionSpec(mode) ==
    IF TruthyStr(mode) THEN Some([mode |-> mode[1]]) ELSE None

SnippetSpec(return_snippet) ==
    IF TruthyBool(return_snippet) THEN Some([return_snippet |-> TRUE]) ELSE None

\* a faulty variant: the chunk spec is attached whenever a count is supplied
ChunkSpecWhenCounts(mode, num_previous_chunks, num_next_chunks) ==
    IF mode = "CHUNKS" \/ num_previous_chunks # None \/ num_next_chunks # None
    THEN Some([num_previous_chunks |-> ProtoInt(num_previous_chunks),
               num_next_chunks |-> ProtoInt(num_next_chunks)])
    ELSE None

\* if search_result_mode == "CHUNKS": content_search_spec.chunk_spec = ...
ChunkSpec(mode, num_previous_chunks, num_next_chunks) ==
    IF mode = "CHUNKS"
    THEN Some([num_previous_chunks |-> ProtoInt(num_previous_chunks),
               num_next_chunks |-> ProtoInt(num_next_chunks)])
    ELSE None

SearchRequest(p, l, c, a) ==
    [serving_config |->
         DataStorePath(p, l, c, a.data_store_id)
             \o <<"/", "servingConfigs", "/", "default_serving_config">>,
     query |-> a.query,
     filter |-> ProtoStr(a.filter),
     page_size |-> ProtoInt(a.page_size),
     content_search_spec |->
         [search_result_mode |-> a.search_result_mode,
          extractive_content_spec |->
              [max_extractive_answer_count |->
                   ProtoInt(a.max_extractive_answer_count),
               max_extractive_segment_count |->
                   ProtoInt(a.max_extractive_segment_count),
               return_extractive_segment_score |->
                   ProtoBool(a.return_extractive_segment_score)],
          snippet_spec |-> SnippetSpec(a.return_snippet),
          chunk_spec |-> ChunkSpec(a.search_result_mode,
                                   a.num_previous_chunks, a.num_next_chunks)],
     spell_correction_spec |->
         SpellCorrectionSpec(SpellCorrectionModeParam(a.spell_correction_mode))]

(***************************************************************************)
(* The calls the model makes.                                              *)
(***************************************************************************)
\* chunk sizes about both ends of the accepted range
ChunkSizes ==
    {-1, 0, MinChunkSize - 1, MinChunkSize, MinChunkSize + 1, 300,
     MaxChunkSize - 1, MaxChunkSize, MaxChunkSize + 1}

FileTypes == SupportedFileTypes \cup {"txt"}

OverrideTypes == ParsingConfigTypes \cup {"table_parsing_config"}

\* the per-file-type dicts: with and without the parsing_config_type key
OverrideDicts ==
    {[parsing_config_type |-> None, use_native_text |-> None]}
        \cup {[parsing_config_type |-> Some(t), use_native_text |-> None] :
                 t \in OverrideTypes}
        \cup {[parsing_config_type |-> Some("ocr_parsing_config"),
               use_native_text |-> Some(TRUE)]}

\* file_type_overrides: the dict's items in its order, keys distinct
\* (None and the empty dict are both << >>: the code tests only its truth)
RECURSIVE OverrideItems(_)
OverrideItems(n) ==
    IF n = 0 THEN {<< >>}
    ELSE LET shorter == OverrideItems(n - 1) IN
         shorter \cup
         {Append(s, [file_type |-> f, overrides |-> o]) :
             s \in {t \in shorter : Len(t) = n - 1},
             f \in FileTypes, o \in OverrideDicts}

DistinctKeys(items) ==
    \A i, j \in 1..Len(items) : items[i].file_type = items[j].file_type => i = j

FileTypeOverrides == {s \in OverrideItems(MaxOverrides) : DistinctKeys(s)}

SampleId == <<"a">>

ConfigCalls ==
    [op : {"generate_document_processing_config"},
     data_store_id : {SampleId},
     parsing_config_type : OverrideTypes,
     use_native_text : BOOLEAN,
     enable_chunking : BOOLEAN,
     chunk_size : ChunkSizes,
     include_ancestor_headings : BOOLEAN,
     file_type_overrides : FileTypeOverrides]

CreateDatastoreCalls ==
    [op : {"create_datastore"},
     data_store_id : Ids,
     starting_schema : {None, Some("schema")},
     document_processing_config : {None, Some("config")}]

OptionalText == {None, Some(""), Some("x")}

ImportCalls ==
    [op : {"import_documents"},
     data_store_id : {SampleId},
     gcs_uri : {None, Some(""), Some("gs://bucket/a"), Some("gs://bucket/b")},
     bigquery_dataset : OptionalText,
     bigquery_table : OptionalText]

IndexStatusCalls ==
    [op : {"check_index_status"},
     document : [name : {<<"doc1">>, <<"doc2">>}]]

CreateEngineCalls ==
    [op : {"create_engine"},
     data_store_ids : {<< >>, <<SampleId>>, <<SampleId, <<"b">> >>},
     display_name : {"engine"},
     engine_id : {<<"e">>}]

OptionalCount == {None} \cup {Some(n) : n \in 0..MaxNeighbors}

OptionalBool == {None, Some(FALSE), Some(TRUE)}

SearchCalls ==
    [op : {"generate_search_request"},
     data_store_id : {SampleId},
     query : {"q"},
     filter : {None, Some("f")},
     page_size : {None, Some(10)},
     max_extractive_answer_count : {None, Some(1)},
     max_extractive_segment_count : {None, Some(1)},
     return_extractive_segment_score : {None, Some(TRUE)},
     return_snippet : OptionalBool,
     num_previous_chunks : OptionalCount,
     num_next_chunks : OptionalCount,
     search_result_mode : {"DOCUMENTS", "CHUNKS"},
     spell_correction_mode :
         {NotPassed, None, Some(""), Some("AUTO"), Some("SUGGESTION_ONLY")}]

(***************************************************************************)
(* The state machine.                                                      *)
(***************************************************************************)
NoResult == [pending |-> TRUE]

NoOperation == [status |-> "none"]

NoRpc == [kind |-> "none", message |-> None]

\* the request a client method was last given
Sent(request) == [kind |-> "request", request |-> request]

\* __init__ with sample fields, then one call of any method
InitBuilders ==
    /\ project_id = <<"a">>
    /\ location = <<"global">>
    /\ collection_id = <<"default_collection">>
    /\ \/ call \in ConfigCalls
       \/ call \in ImportCalls
       \/ call \in IndexStatusCalls
       \/ call \in CreateEngineCalls
       \/ call \in SearchCalls

\* __init__ with any fields, then a call of create_datastore
InitPaths ==
    /\ project_id \in Components
    /\ location \in Components
    /\ collection_id \in Collections
    /\ call \in CreateDatastoreCalls

Init ==
    /\ InitBuilders \/ InitPaths
    /\ pc = "called"
    /\ result = NoResult
    /\ lro = NoOperation
    /\ rpc = NoRpc

Calling(op) == pc = "called" /\ call.op = op

GenerateDocumentProcessingConfig ==
    /\ Calling("generate_document_processing_config")
    /\ LET r == DocumentProcessingConfig(project_id, location, collection_id, call)
       IN  IF IsError(r)
           THEN pc' = "raised" /\ result' = r
           ELSE pc' = "returned" /\ result' = [value |-> r]
    /\ UNCHANGED << project_id, location, collection_id, call, lro, rpc >>

\* the remote client takes the request and starts a long-running operation,
\* whose handle the method returns, or refuses it, and the error propagates
Submit(request) ==
    /\ rpc' = Sent(request)
    /\ \/ /\ lro' = [status |-> "running", request |-> request]
          /\ pc' = "returned"
          /\ result' = [value |-> [operation |-> request]]
       \/ /\ lro' = lro
          /\ pc' = "raised"
          /\ result' = Raised("remote error")

CreateDatastore ==
    /\ Calling("create_datastore")
    /\ Submit(CreateDataStoreRequest(project_id, location, collection_id, call))
    /\ UNCHANGED << project_id, location, collection_id, call >>

ImportDocuments ==
    /\ Calling("import_documents")
    /\ Submit(ImportDocumentsRequest(project_id, location, call))
    /\ UNCHANGED << project_id, location, collection_id, call >>

CheckIndexStatus ==
    /\ Calling("check_index_status")
    /\ \E outcome \in GetDocumentOutcomes :
          /\ rpc' = outcome
          /\ LET r == IndexStatus(outcome)
             IN  IF IsError(r)
                 THEN pc' = "raised" /\ result' = r
                 ELSE pc' = "returned" /\ result' = r
    /\ UNCHANGED << project_id, location, collection_id, call, lro >>

\* a faulty variant: create_engine returns the operation without waiting for it
CreateEngineSubmitNoWait ==
    /\ Calling("create_engine")
    /\ Submit(CreateEngineRequest(project_id, location, collection_id, call))
    /\ UNCHANGED << project_id, location, collection_id, call >>

\* create_engine up to operation.result(): the request is submitted
CreateEngineSubmit ==
    /\ Calling("create_engine")
    /\ LET request == CreateEngineRequest(project_id, location, collection_id, call)
       IN  /\ rpc' = Sent(request)
           /\ \/ /\ lro' = [status |-> "running", request |-> request]
                 /\ pc' = "waiting"
                 /\ result' = result
              \/ /\ lro' = lro
                 /\ pc' = "raised"
                 /\ result' = Raised("remote error")
    /\ UNCHANGED << project_id, location, collection_id, call >>

\* the remote service finishes the operation
OperationFinishes ==
    /\ lro.status = "running"
    /\ \/ lro' = [lro EXCEPT !.status = "succeeded"]
       \/ lro' = [lro EXCEPT !.status = "failed"]
    /\ UNCHANGED << project_id, location, collection_id, call, pc, result, rpc >>

\* operation.result() returns: the operation is over
CreateEngineResult ==
    /\ pc = "waiting"
    /\ call.op = "create_engine"
    /\ lro.status \in {"succeeded", "failed"}
    /\ IF lro.status = "succeeded"
       THEN pc' = "returned" /\ result' = [value |-> [response |-> lro.request.engine]]
       ELSE pc' = "raised" /\ result' = Raised("operation failed")
    /\ UNCHANGED << project_id, location, collection_id, call, lro, rpc >>

GenerateSearchRequest ==
    /\ Calling("generate_search_request")
    /\ pc' = "returned"
    /\ result' = [value |-> SearchRequest(project_id, location, collection_id, call)]
    /\ UNCHANGED << project_id, location, collection_id, call, lro, rpc >>

Next ==
    \/ GenerateDocumentProcessingConfig
    \/ CreateDatastore
    \/ ImportDocuments
    \/ CheckIndexStatus
    \/ CreateEngineSubmit
    \/ OperationFinishes
    \/ CreateEngineResult
    \/ GenerateSearchRequest

Spec == Init /\ [][Next]_vars

(***************************************************************************)
(* Properties.                                                             *)
(***************************************************************************)
Done == pc \in {"returned", "raised"}

ConfigDone == call.op = "generate_document_processing_config" /\ Done

RangeMessage == "chunk_size must be between 100 and 500 inclusive."

ChunkingMessage == "Chunking is only supported with layout_parsing_config."

\* C1: with chunking enabled, a recognized base strategy and no overrides,
\* the builder returns exactly for layout with 100 <= chunk_size <= 500,
\* the chunking block then carrying that chunk_size; layout outside the
\* range raises the range error, and digital and ocr always raise.
C1_ChunkingSucceedsIffLayoutInRange ==
    (/\ ConfigDone
     /\ call.enable_chunking
     /\ call.parsing_config_type \in ParsingConfigTypes
     /\ call.file_type_overrides = << >>)
    => IF call.parsing_config_type = "layout_parsing_config"
       THEN IF 100 <= call.chunk_size /\ call.chunk_size <= 500
            THEN /\ pc = "returned"
                 /\ result.value.chunking_config # None
                 /\ result.value.chunking_config[1].chunk_size = call.chunk_size
            ELSE pc = "raised" /\ result.error = RangeMessage
       ELSE pc = "raised"

C1_Witness ==
    /\ ConfigDone
    /\ call.enable_chunking
    /\ call.file_type_overrides = << >>
    /\ call.chunk_size = 500
    /\ pc = "returned"
    /\ result.value.chunking_config[1].chunk_size = 500

\* an override entry that breaks none of the three override rules
OverrideEntryValid(e) ==
    /\ e.file_type \in {"pdf", "html", "docx", "pptx", "xlsm", "xlsx"}
    /\ \/ e.overrides.parsing_config_type = None
       \/ e.overrides.parsing_config_type \in
              {Some("digital_parsing_config"), Some("layout_parsing_config")}
       \/ /\ e.overrides.parsing_config_type = Some("ocr_parsing_config")
          /\ e.file_type = "pdf"

OverridesValid(items) == \A i \in 1..Len(items) : OverrideEntryValid(items[i])

\* C2: with chunking disabled, a recognized base strategy and overrides
\* that break no override rule, the builder raises nothing and returns a
\* configuration, whatever the chunk_size.
C2_NoRangeRuleWithoutChunking ==
    (/\ ConfigDone
     /\ ~call.enable_chunking
     /\ call.parsing_config_type \in ParsingConfigTypes
     /\ OverridesValid(call.file_type_overrides))
    => pc = "returned"

\* the rules the code applies after the overrides: the chunking rule, and
\* the range rule, which it applies whether or not chunking is enabled
BaseRulesPass ==
    /\ ~(call.enable_chunking /\ call.parsing_config_type # "layout_parsing_config")
    /\ 100 <= call.chunk_size /\ call.chunk_size <= 500

OverrideOf(f) ==
    {i \in 1..Len(call.file_type_overrides) :
        call.file_type_overrides[i].file_type = f}

\* the call overrides file type f with strategy t
Overrides(f, t) ==
    \E i \in OverrideOf(f) :
        call.file_type_overrides[i].overrides.parsing_config_type = Some(t)

\* every entry but the one for f breaks no override rule
OthersValid(f) ==
    \A i \in 1..Len(call.file_type_overrides) :
        i \in OverrideOf(f) \/ OverrideEntryValid(call.file_type_overrides[i])

OcrCase ==
    /\ ConfigDone
    /\ call.parsing_config_type \in ParsingConfigTypes

\* C3 as stated: an ocr override always fails for html, docx, pptx, xlsm
\* and xlsx, and always succeeds for pdf, for every base strategy.  It is
\* stated of the calls with that one override and a chunk_size within
\* [100, 500], where the range rule is not at issue.
C3_OcrOverridePdfAlwaysSucceeds ==
    (/\ OcrCase
     /\ Len(call.file_type_overrides) = 1
     /\ 100 <= call.chunk_size /\ call.chunk_size <= 500)
    => /\ \A f \in {"html", "docx", "pptx", "xlsm", "xlsx"} :
              Overrides(f, "ocr_parsing_config") => pc = "raised"
       /\ Overrides("pdf", "ocr_parsing_config")
              => /\ pc = "returned"
                 /\ result.value.parsing_config_overrides["pdf"].kind
                        = "ocr_parsing_config"

\* C3, amended: an ocr override always fails for html, docx, pptx, xlsm and
\* xlsx; for pdf (the other overrides valid) the call succeeds exactly when
\* the base rules pass, the override for pdf then being an OCR parsing config.
C3_OcrOverrideOnlyForPdf ==
    OcrCase
    => /\ \A f \in {"html", "docx", "pptx", "xlsm", "xlsx"} :
              Overrides(f, "ocr_parsing_config") => pc = "raised"
       /\ (Overrides("pdf", "ocr_parsing_config") /\ OthersValid("pdf"))
              => /\ pc = "returned" <=> BaseRulesPass
                 /\ pc = "returned" =>
                        result.value.parsing_config_overrides["pdf"].kind
                            = "ocr_parsing_config"

C3_Witness ==
    /\ OcrCase
    /\ Overrides("pdf", "ocr_parsing_config")
    /\ call.parsing_config_type = "digital_parsing_config"
    /\ pc = "returned"
    /\ result.value.parsing_config_overrides["pdf"].kind = "ocr_parsing_config"

SuppliedFileTypes ==
    {call.file_type_overrides[i].file_type : i \in 1..Len(call.file_type_overrides)}

\* C4 as stated: for every supported file type f, an override naming an
\* unrecognized strategy always fails, and one naming a recognized strategy
\* always succeeds and is stored under f, with no entry for other file types.
\* It is stated of the calls with that one override that pass the base
\* rules, where neither the chunking rule nor the range rule is at issue.
C4_RecognizedOverrideAlwaysSucceeds ==
    (OcrCase /\ Len(call.file_type_overrides) = 1 /\ BaseRulesPass)
    => \A f \in {"pdf", "html", "docx", "pptx", "xlsm", "xlsx"} :
        /\ Overrides(f, "table_parsing_config") => pc = "raised"
        /\ \A t \in {"digital_parsing_config", "ocr_parsing_config",
                     "layout_parsing_config"} :
              Overrides(f, t)
              => /\ pc = "returned"
                 /\ result.value.parsing_config_overrides[f].kind = t
                 /\ DOMAIN result.value.parsing_config_overrides = {f}

\* C4, amended: an override for a supported file type f naming an
\* unrecognized strategy always fails; one naming a recognized strategy t
\* (the other overrides valid) succeeds exactly when t is not ocr or f is
\* pdf, and the base rules pass; the configuration then holds, under f, a
\* parsing config of strategy t, and entries for the supplied types only.
C4_RecognizedOverrideStored ==
    OcrCase
    => \A f \in {"pdf", "html", "docx", "pptx", "xlsm", "xlsx"} :
        /\ Overrides(f, "table_parsing_config") => pc = "raised"
        /\ \A t \in {"digital_parsing_config", "ocr_parsing_config",
                     "layout_parsing_config"} :
              (Overrides(f, t) /\ OthersValid(f))
              => /\ pc = "returned"
                        <=> (t # "ocr_parsing_config" \/ f = "pdf") /\ BaseRulesPass
                 /\ pc = "returned" =>
                      /\ result.value.parsing_config_overrides[f].kind = t
                      /\ DOMAIN result.value.parsing_config_overrides
                            = SuppliedFileTypes

C4_Witness ==
    /\ OcrCase
    /\ Overrides("xlsx", "layout_parsing_config")
    /\ pc = "returned"
    /\ result.value.parsing_config_overrides["xlsx"].kind = "layout_parsing_config"
    /\ DOMAIN result.value.parsing_config_overrides = {"xlsx"}

ImportDone == call.op = "import_documents" /\ Done

\* C5: every import request has exactly one source populated and
\* incremental reconciliation: a non-empty gcs_uri gives the object-storage
\* source alone (that one URI, schema "document"), and no gcs_uri gives the
\* warehouse source alone (schema "custom"), whatever dataset and table are.
C5_ImportExactlyOneSource ==
    ImportDone
    => LET r == rpc.request IN
       /\ r.reconciliation_mode = "INCREMENTAL"
       /\ (r.gcs_source = None) # (r.bigquery_source = None)
       /\ (call.gcs_uri # None /\ call.gcs_uri # Some(""))
              => /\ r.gcs_source =
                       Some([input_uris |-> <<call.gcs_uri[1]>>,
                             data_schema |-> "document"])
                 /\ r.bigquery_source = None
       /\ (call.gcs_uri = None \/ call.gcs_uri = Some(""))
              => /\ r.gcs_source = None
                 /\ r.bigquery_source # None
                 /\ r.bigquery_source[1].data_schema = "custom"
                 /\ call.bigquery_dataset # None =>
                        r.bigquery_source[1].dataset_id = call.bigquery_dataset[1]
                 /\ call.bigquery_table # None =>
                        r.bigquery_source[1].table_id = call.bigquery_table[1]

C5_Witness ==
    /\ ImportDone
    /\ pc = "returned"
    /\ call.gcs_uri = Some("gs://bucket/a")
    /\ call.bigquery_dataset = Some("x")
    /\ call.bigquery_table = Some("x")
    /\ rpc.request.gcs_source # None
    /\ rpc.request.bigquery_source = None

IndexStatusDone == call.op = "check_index_status" /\ pc # "called"

\* C6: check_index_status never raises: when get_document or the
\* extraction fails it returns None, as it does for a document without an
\* index time; when the document has an index time it returns it.
C6_IndexStatusSwallowsFailure ==
    IndexStatusDone
    => /\ pc = "returned"
       /\ DOMAIN result = {"value"}
       /\ rpc.kind \in {"rpc_error", "bad_response"} => result.value = None
       /\ rpc.kind = "document" => result.value = rpc.message

C6_Witness ==
    /\ IndexStatusDone
    /\ rpc.kind = "rpc_error"
    /\ pc = "returned"
    /\ result.value = None

SearchDone == call.op = "generate_search_request" /\ Done

\* C7 as stated: the request always carries a spell-correction spec, for
\* every value passed as spell_correction_mode; with no mode passed the
\* mode is suggestion-only.
C7_SpellCorrectionAlwaysAttached ==
    SearchDone
    => /\ pc = "returned"
       /\ result.value.spell_correction_spec # None
       /\ call.spell_correction_mode = NotPassed
              => result.value.spell_correction_spec[1].mode = "SUGGESTION_ONLY"

\* C7, amended: the request carries a spell-correction spec exactly when
\* the mode is not passed or is passed as a non-empty value; the spec then
\* carries that mode, suggestion-only when none is passed.  A mode passed
\* as None or as the empty string gives a request without the spec.
C7_SpellCorrectionAttachedIfTruthy ==
    SearchDone
    => /\ pc = "returned"
       /\ call.spell_correction_mode = NotPassed
              => result.value.spell_correction_spec
                     = Some([mode |-> "SUGGESTION_ONLY"])
       /\ call.spell_correction_mode \in {None, Some("")}
              => result.value.spell_correction_spec = None
       /\ call.spell_correction_mode \in {Some("AUTO"), Some("SUGGESTION_ONLY")}
              => result.value.spell_correction_spec
                     = Some([mode |-> call.spell_correction_mode[1]])

C7_Witness ==
    /\ SearchDone
    /\ call.spell_correction_mode = NotPassed
    /\ result.value.spell_correction_spec = Some([mode |-> "SUGGESTION_ONLY"])

\* C8: the request carries a chunk-context block exactly when
\* search_result_mode is CHUNKS; the block carries the counts supplied
\* (the field's default, 0, for a count left out), and DOCUMENTS mode never
\* attaches it, even with counts supplied.
C8_ChunkSpecIffChunksMode ==
    SearchDone
    => LET spec == result.value.content_search_spec.chunk_spec IN
       /\ spec # None <=> call.search_result_mode = "CHUNKS"
       /\ spec # None
              => /\ call.num_previous_chunks # None =>
                        spec[1].num_previous_chunks = call.num_previous_chunks[1]
                 /\ call.num_next_chunks # None =>
                        spec[1].num_next_chunks = call.num_next_chunks[1]
                 /\ call.num_previous_chunks = None =>
                        spec[1].num_previous_chunks = 0
                 /\ call.num_next_chunks = None => spec[1].num_next_chunks = 0

C8_Witness ==
    /\ SearchDone
    /\ call.search_result_mode = "DOCUMENTS"
    /\ call.num_previous_chunks = Some(1)
    /\ call.num_next_chunks = Some(1)
    /\ result.value.content_search_spec.chunk_spec = None

\* C9: create_engine returns only once the operation its request started
\* is over, with the operation's final result, and a failed operation's
\* error reaches the caller; create_datastore and import_documents return
\* the operation's handle as soon as the request is submitted, whatever
\* the operation's state.
C9_OnlyCreateEngineWaits ==
    /\ call.op = "create_engine"
           => /\ pc = "returned"
                  => /\ lro.status = "succeeded"
                     /\ lro.request = rpc.request
                     /\ result = [value |-> [response |-> rpc.request.engine]]
              /\ (pc = "raised" /\ lro.status # "none") => lro.status = "failed"
              /\ lro.status = "running" => pc = "waiting" /\ result = NoResult
    /\ (call.op \in {"create_datastore", "import_documents"} /\ pc = "returned")
           => /\ lro.status \in {"running", "succeeded", "failed"}
              /\ result = [value |-> [operation |-> rpc.request]]
              /\ lro.request = rpc.request

C9_Witness ==
    /\ call.op = "create_engine"
    /\ pc = "returned"
    /\ lro.status = "succeeded"

C9_HandleWitness ==
    /\ call.op = "create_datastore"
    /\ pc = "returned"
    /\ lro.status = "running"

(***************************************************************************)
(* The data store's name as a function of (project, location, collection,  *)
(* id).                                                                    *)
(***************************************************************************)
\* the name create_datastore gave the data store in its request
NameBuilt == rpc.request.data_store.name

NameDone == call.op = "create_datastore" /\ Done

SlashFreeComponents == {s \in Components : ~HasSlash(s)}

SlashFreeIds == {s \in Ids : ~HasSlash(s)}

\* C10 as stated: the name is an injective function of the tuple: no other
\* tuple (project, location, collection, id) gives the name this one gave.
C10_PathInjectiveOverTuples ==
    NameDone
    => \A p \in Components, l \in Components, c \in Collections, id \in Ids :
          DataStorePath(p, l, c, id) = NameBuilt
          => << p, l, c, id >>
                 = << project_id, location, collection_id, call.data_store_id >>

\* C10, amended: the name is injective in the id, the other components
\* equal, and injective over the tuples whose components contain no "/";
\* two tuples whose components contain "/" can give the same name.
C10_PathInjectiveInId ==
    NameDone
    => /\ \A id \in Ids :
              DataStorePath(project_id, location, collection_id, id) = NameBuilt
              => id = call.data_store_id
       /\ (\A s \in {project_id, location, collection_id, call.data_store_id} :
               ~HasSlash(s))
              => \A p \in SlashFreeComponents, l \in SlashFreeComponents,
                    c \in Collections, id \in SlashFreeIds :
                    DataStorePath(p, l, c, id) = NameBuilt
                    => << p, l, c, id >>
                           = << project_id, location, collection_id,
                                call.data_store_id >>

C10_Witness ==
    /\ call.op = "create_datastore"
    /\ Done
    /\ project_id = <<"a", "locations">>
    /\ location = << >>
    /\ call.data_store_id = <<"a">>
    /\ rpc.request.data_store.name
           = <<"projects", "/", "a", "locations", "/", "locations", "/",
               "/", "collections", "/">> \o collection_id
                 \o <<"/", "dataStores", "/", "a">>

=============================================================================
